---- MODULE Spec2Model ----
(***************************************************************************)
(* Opening Bell: the rate-limited batch-summarisation pipeline.            *)
(*                                                                         *)
(* rate_limiter.py  RateLimiter (wait_if_needed, get_stats, reset)         *)
(* summarize.py     generate_market_summary, generate_digest,              *)
(*                  summarize_stock_news, build_stock_prompt,              *)
(*                  format_earnings_data                                   *)
(* main.py          main / process_user (one generate_digest per user)     *)
(*                                                                         *)
(* Time is counted in ticks; Minute ticks make timedelta(minutes=1) and    *)
(* Day ticks make timedelta(days=1).  datetime.now() reads clock.          *)
(* time.sleep(w) ends no earlier than w ticks after it began.              *)
(***************************************************************************)
EXTENDS Integers, Sequences, FiniteSets, TLC

\* ---------------------------------------------------------------- bounds
Minute == 2            \* ticks in timedelta(minutes=1)
Day == 5               \* ticks in timedelta(days=1)
MaxTime == 14          \* no call starts when its sleeps could pass this
MaxJitter == 1         \* a sleep may overshoot by this many ticks
MaxCalls == 5          \* wait_if_needed calls made by the limiter driver
MaxRpm == 3            \* configured requests_per_minute range 1..MaxRpm
MaxRpd == 2            \* configured requests_per_day range 1..MaxRpd
MaxUsers == 2          \* users main() processes
MaxRecords == 3        \* stock records of one user
MaxBatch == 3          \* batch_size range 1..MaxBatch

\* ------------------------------------------------------ program constants
REQUESTS_PER_MINUTE == 1000
REQUESTS_PER_DAY == 999999

VARIABLES
    requests_per_minute,   \* RateLimiter.requests_per_minute
    requests_per_day,      \* RateLimiter.requests_per_day
    request_times,         \* RateLimiter.request_times (deque, oldest first)
    daily_count,           \* RateLimiter.daily_count
    daily_reset_time,      \* RateLimiter.daily_reset_time
    clock,                 \* the wall clock read by datetime.now()
    lpc,                   \* position inside wait_if_needed
    now,                   \* wait_if_needed's local `now`
    wait_seconds,          \* wait_if_needed's local `wait_seconds`
    oldest,                \* wait_if_needed's local `oldest`, <<>> when unset
    slept_daily,           \* history: this call slept for the daily limit
    slept_minute,          \* history: this call slept for the minute limit
    entry_count,           \* history: daily_count when the call was entered
    entry_len,             \* history: len(request_times) after the last prune
    returns,               \* history: return times within the last minute
    n_calls,               \* history: wait_if_needed calls the driver made
    n_admitted,            \* history: wait_if_needed calls that returned
    exception,             \* the exception the last operation raised
    stats,                 \* the dict get_stats() last returned
    pc,                    \* position of the calling program
    users_left,            \* main: users still to process
    stocks_data,           \* generate_digest: the records
    batch_size,            \* generate_digest: batch_size
    i,                     \* generate_digest: start of the current batch
    k,                     \* generate_digest: position in the fallback loop
    all_summaries,         \* generate_digest: all_summaries
    market_data,           \* generate_digest: market_data, <<>> for None
    market_summary_cache,  \* summarize._market_summary_cache, <<>> for None
    closes,                \* generate_market_summary: closes per index
    result,                \* what the last generate_digest call gave
    n_model_calls,         \* history: model.generate_content calls made
    ov_fetches,            \* history: index fetches by the overview
    ov_admissions,         \* history: admissions made for the overview
    ov_model_calls,        \* history: model calls made for the overview
    ov_returns,            \* history: values generate_market_summary returned
    failed_batches,        \* history: batch starts whose model call failed
    failed_stocks,         \* history: symbols whose own model call failed
    prompts,               \* the prompt variants the last prompt step built
    call_log,              \* history: this digest's calls and their outcomes
    admitted_before,       \* history: n_admitted when the digest was entered
    ov_cause               \* history: why the closes ruled the overview out

limiterVars == <<requests_per_minute, requests_per_day, request_times,
                 daily_count, daily_reset_time>>
frameVars == <<lpc, now, wait_seconds, oldest>>
histVars == <<slept_daily, slept_minute, entry_count, entry_len, returns,
              n_calls, n_admitted>>
pipeVars == <<users_left, stocks_data, batch_size, i, k, all_summaries,
              market_data, market_summary_cache, closes, result>>
pipeHist == <<n_model_calls, ov_fetches, ov_admissions, ov_model_calls,
              ov_returns, failed_batches, failed_stocks>>
runHist == <<prompts, call_log, admitted_before, ov_cause>>
vars == <<limiterVars, clock, frameVars, histVars, exception, stats, pc,
          pipeVars, pipeHist, runHist>>

\* ------------------------------------------------------------ RateLimiter

\* the while loop of lines 52-53 / 66-67: popleft while the head is older
\* than one minute before t
RECURSIVE PruneOld(_, _)
PruneOld(times, t) ==
    IF times # <<>> /\ Head(times) < t - Minute
    THEN PruneOld(Tail(times), t)
    ELSE times

\* the reset is taken one tick before the deadline
DailyResetDue_early(t, reset_time) == t + 1 >= reset_time

\* line 38
DailyResetDue(t, reset_time) == t >= reset_time

\* the daily check with > for >=
DailyLimitReached_gt(count, rpd) == count > rpd

\* line 43
DailyLimitReached(count, rpd) == count >= rpd

\* line 56
MinuteLimitReached(times, rpm) == Len(times) >= rpm - 1

\* line 59
MinuteWait(t, old) == Minute - (t - old)

\* history only: the return times no more than one minute before t
RECURSIVE Recent(_, _)
Recent(times, t) ==
    IF times = <<>> THEN <<>>
    ELSE IF Head(times) > t - Minute
         THEN <<Head(times)>> \o Recent(Tail(times), t)
         ELSE Recent(Tail(times), t)

\* lines 70-71: record the request and return
Record(times, t, count) ==
    /\ request_times' = Append(times, t)
    /\ daily_count' = count + 1
    /\ lpc' = "returned"
    /\ now' = t
    /\ wait_seconds' = 0
    /\ returns' = Append(Recent(returns, clock'), clock')
    /\ n_admitted' = n_admitted + 1
    /\ exception' = "none"

\* lines 51-60 (and 70-71 when no sleep is needed), run with local now = t
MinutePhase(t, count) ==
    LET pruned == PruneOld(request_times, t) IN
    /\ entry_len' = Len(pruned)
    /\ IF MinuteLimitReached(pruned, requests_per_minute)
       THEN IF pruned = <<>>
            THEN \* line 58: request_times[0] on an empty deque
                 /\ exception' = "IndexError"
                 /\ lpc' = "raised"
                 /\ request_times' = pruned
                 /\ daily_count' = count
                 /\ now' = t
                 /\ oldest' = <<>>
                 /\ wait_seconds' = 0
                 /\ UNCHANGED <<returns, n_admitted>>
            ELSE /\ oldest' = <<Head(pruned)>>
                 /\ IF MinuteWait(t, Head(pruned)) > 0
                    THEN /\ lpc' = "minute_sleep"
                         /\ wait_seconds' = MinuteWait(t, Head(pruned))
                         /\ request_times' = pruned
                         /\ daily_count' = count
                         /\ now' = t
                         /\ UNCHANGED <<returns, n_admitted, exception>>
                    ELSE Record(pruned, t, count)
       ELSE /\ oldest' = <<>>
            /\ Record(pruned, t, count)

\* wait_if_needed, lines 35-44, then on to the minute check when the daily
\* limit is not reached.  Conjoined by every caller's calling action.
WaitIfNeeded ==
    /\ lpc = "idle"
    /\ clock + Day + Minute + 2 * MaxJitter <= MaxTime
    /\ slept_daily' = FALSE
    /\ slept_minute' = FALSE
    /\ clock' = clock
    /\ UNCHANGED <<requests_per_minute, requests_per_day, stats>>
    /\ LET t == clock
           due == DailyResetDue(t, daily_reset_time)
           count == IF due THEN 0 ELSE daily_count
           reset_time == IF due THEN t + Day ELSE daily_reset_time
       IN /\ daily_reset_time' = reset_time
          /\ entry_count' = count
          /\ IF DailyLimitReached(count, requests_per_day)
             THEN /\ lpc' = "daily_sleep"
                  /\ wait_seconds' = reset_time - t
                  /\ now' = t
                  /\ daily_count' = count
                  /\ oldest' = <<>>
                  /\ UNCHANGED <<request_times, returns, n_admitted,
                                 exception, entry_len>>
             ELSE MinutePhase(t, count)

\* lines 46-48: the daily sleep ends, the daily state is reset from a fresh
\* datetime.now(); the local `now` is not refreshed.  Then lines 51-71.
DailySleep ==
    /\ lpc = "daily_sleep"
    /\ \E j \in 0..MaxJitter :
         /\ clock' = clock + wait_seconds + j
         /\ daily_reset_time' = clock' + Day
         /\ slept_daily' = TRUE
         /\ MinutePhase(now, 0)
    /\ UNCHANGED <<requests_per_minute, requests_per_day, slept_minute,
                   entry_count, n_calls, stats, pc, pipeVars, pipeHist>>
    /\ UNCHANGED runHist

\* lines 62-71: the minute sleep ends, `now` is refreshed, the window is
\* pruned again, the request is recorded
MinuteSleep ==
    /\ lpc = "minute_sleep"
    /\ \E j \in 0..MaxJitter :
         /\ clock' = clock + wait_seconds + j
         /\ slept_minute' = TRUE
         /\ entry_len' = Len(PruneOld(request_times, clock'))
         /\ Record(PruneOld(request_times, clock'), clock', daily_count)
    /\ UNCHANGED <<requests_per_minute, requests_per_day, daily_reset_time,
                   oldest, slept_daily, entry_count, n_calls, stats, pc,
                   pipeVars, pipeHist>>
    /\ UNCHANGED runHist

\* get_stats, lines 75-86
RecentRequests(times, t) ==
    Cardinality({x \in 1..Len(times) : times[x] > t - Minute})

GetStats ==
    /\ lpc = "idle"
    /\ stats' = [requests_last_minute |-> RecentRequests(request_times, clock),
                 requests_today |-> daily_count,
                 daily_limit |-> requests_per_day,
                 per_minute_limit |-> requests_per_minute]
    /\ exception' = "none"
    /\ UNCHANGED <<limiterVars, clock, frameVars, histVars>>

\* reset, lines 90-92
Reset ==
    /\ lpc = "idle"
    /\ request_times' = <<>>
    /\ daily_count' = 0
    /\ daily_reset_time' = clock + Day
    /\ exception' = "none"
    /\ UNCHANGED <<requests_per_minute, requests_per_day, clock, frameVars,
                   histVars, stats>>

\* __init__, lines 27-31, at time 0
LimiterInit(rpm, rpd) ==
    /\ requests_per_minute = rpm
    /\ requests_per_day = rpd
    /\ request_times = <<>>
    /\ daily_count = 0
    /\ clock = 0
    /\ daily_reset_time = Day
    /\ lpc = "idle"
    /\ now = 0
    /\ wait_seconds = 0
    /\ oldest = <<>>
    /\ slept_daily = FALSE
    /\ slept_minute = FALSE
    /\ entry_count = 0
    /\ entry_len = 0
    /\ returns = <<>>
    /\ n_calls = 0
    /\ n_admitted = 0
    /\ exception = "none"
    /\ stats = [requests_last_minute |-> 0, requests_today |-> 0,
                daily_limit |-> rpd, per_minute_limit |-> rpm]

\* ----------------------------------------------------------- summarize.py

\* an EarningsSnapshot as format_earnings_data reads it in its last section:
\* whether target_mean_price is truthy, and the 'recommendation' entry: the
\* key missing, the key present with the value None, or a string.
\* <<>> stands for earnings = None.
EarningsDicts ==
    [target_mean_price : BOOLEAN,
     recommendation : {"missing", "None", "buy"}]

\* a StockRecord: its symbol (which stands for its name, price and change
\* too), whether it has news, its earnings
Stock(sym, has_news, earn) ==
    [symbol |-> sym, news |-> has_news, earnings |-> earn]

\* format_earnings_data, lines 79-83: with a truthy target_mean_price the
\* guidance section calls earnings.get('recommendation', 'N/A').upper(),
\* which raises AttributeError when the key is present with the value None
FormatEarningsRaises(earn) ==
    /\ earn # <<>>
    /\ earn[1].target_mean_price
    /\ earn[1].recommendation = "None"

\* build_stock_prompt, lines 197-198 (and summarize_stock_news, 106-107):
\* format_earnings_data is called whenever earnings is not None
BuildPromptRaises(stock) == FormatEarningsRaises(stock.earnings)

\* lines 110 and 201: `if news or has_earnings`
HasData(stock) == stock.news \/ stock.earnings # <<>>

\* the variant of the prompt text, lines 110-171 and 201-255: with data the
\* instruction block that focuses on the earnings when there are earnings
\* and on the news otherwise; without data the "No news articles or
\* earnings reports were published recently" text
PromptVariant(stock) ==
    IF HasData(stock)
    THEN IF stock.earnings # <<>> THEN "earnings" ELSE "news"
    ELSE "no_data"

\* build_stock_prompt, lines 190-255: format_earnings_data is called first
\* (lines 197-198), then the variant is chosen
StockPrompt(stock) ==
    IF BuildPromptRaises(stock) THEN "raised" ELSE PromptVariant(stock)

\* summarize_stock_news, lines 98-171: the same steps (lines 106-107, 110)
SummaryPrompt(stock) ==
    IF FormatEarningsRaises(stock.earnings) THEN "raised"
    ELSE PromptVariant(stock)

\* the header of lines 181 and 186: name, symbol, price and change
Header(stock) == <<stock.symbol>>

Min(a, b) == IF a < b THEN a ELSE b

\* the slice with the last record dropped
Batch_short(data, start, size) ==
    SubSeq(data, start + 1, Min(start + size, Len(data)) - 1)

\* line 386: stocks_data[i:i + batch_size]
Batch(data, start, size) ==
    SubSeq(data, start + 1, Min(start + size, Len(data)))

\* the fallback runs over all the records that are left
FallbackBatch_rest(data, start, size) == SubSeq(data, start + 1, Len(data))

\* line 428: `for stock_data in batch`, the batch of line 386
FallbackBatch(data, start, size) == Batch(data, start, size)

\* the loop steps by one record
NextBatchStart_one(start, size) == start + 1

\* line 385: range(0, len(stocks_data), batch_size)
NextBatchStart(start, size) == start + size

Symbols(data) == [p \in 1..Len(data) |-> data[p].symbol]

\* line 424: the model's answer to a batch prompt, one opaque block; it is
\* the answer to the prompts of the stocks named in `symbols`
BatchBlock(batch) ==
    [kind |-> "batch", symbols |-> Symbols(batch), body |-> "response"]

\* lines 181 and 430: a stock's own header and the generated summary
SummaryBlock(stock) ==
    [kind |-> "stock", symbols |-> Header(stock), body |-> "summary"]

\* lines 186 and 430: a stock's own header and the fixed placeholder
ErrorBlock(stock) ==
    [kind |-> "stock", symbols |-> Header(stock),
     body |-> "Error generating summary."]

\* the model is called although the admission is still sleeping
ModelGate_open(l) == l \in {"returned", "daily_sleep", "minute_sleep"}

\* lines 302-303, 421-423, 175-177: generate_content runs once
\* wait_if_needed has returned
ModelGate(l) == l = "returned"

\* the failure of one stock ends the fallback loop of its chunk
AfterStockFailure_abort(pos, n) == n

\* lines 184-186 and 428-430: the exception is caught inside
\* summarize_stock_news, so the loop goes on to the next stock
AfterStockFailure(pos, n) == pos + 1

\* the stored overview is never found
CacheHit_never(cache) == FALSE

\* line 262: `if _market_summary_cache is not None`
CacheHit(cache) == cache # <<>>

\* the result is returned without being stored
CacheStore_skip(ms) == <<>>

\* line 313
CacheStore(ms) == <<ms>>

\* the record lists a user may have: plain records (news, no earnings), a
\* single record with an earnings snapshot, or records of which the last
\* has neither news nor earnings
Plain(sym) == Stock(sym, TRUE, <<>>)

Quiet(sym) == Stock(sym, FALSE, <<>>)

StockLists ==
    {[p \in 1..n |-> Plain(p)] : n \in 1..MaxRecords}
    \cup {<<Stock(1, has_news, <<e>>)>> :
            has_news \in BOOLEAN, e \in EarningsDicts}
    \cup {<<Quiet(1)>>, <<Plain(1), Quiet(2)>>}

\* an overview section is emitted although there is no overview
OverviewSection_stub(md) ==
    IF md = <<>> THEN <<[summary |-> "unavailable"]>> ELSE md

\* generate_digest 368-374: the Market Overview section is what
\* generate_market_summary returned, and is left out when that is None
OverviewSection(md) == md

\* what the model may answer to the overview prompt
Texts == {"bullish", "bearish"}

NoResult == [kind |-> "none", overview |-> <<>>, blocks |-> <<>>]

\* the pipeline before main() starts; batch_size is generate_digest's
PipelineInit(size) ==
    /\ users_left = MaxUsers
    /\ stocks_data = <<>>
    /\ batch_size = size
    /\ i = 0
    /\ k = 0
    /\ all_summaries = <<>>
    /\ market_data = <<>>
    /\ market_summary_cache = <<>>
    /\ closes = <<>>
    /\ result = NoResult
    /\ n_model_calls = 0
    /\ ov_fetches = 0
    /\ ov_admissions = 0
    /\ ov_model_calls = 0
    /\ ov_returns = <<>>
    /\ failed_batches = {}
    /\ failed_stocks = {}
    /\ prompts = <<>>
    /\ call_log = <<>>
    /\ admitted_before = 0
    /\ ov_cause = "none"

\* an entry of the call log: the call's kind ("overview", "batch" or
\* "stock"), the batch start or the position of the stock, and how the
\* try block around wait_if_needed and generate_content ended
Call(kind, at, outcome) == [kind |-> kind, at |-> at, outcome |-> outcome]

limiterAll == <<limiterVars, clock, frameVars, histVars, exception, stats>>

\* the limiter is left as it is, the finished call's frame is dropped
LimiterResumed ==
    /\ lpc' = "idle"
    /\ UNCHANGED <<limiterVars, now, wait_seconds, oldest, histVars,
                   exception, stats>>

\* the empty list is taken for a list with records
NoStocks_never(data) == FALSE

\* generate_digest 335: `if not stocks_data`
NoStocks(data) == data = <<>>

\* generate_digest 335-367 called with `data`: "" is returned at once for
\* an empty list; otherwise the header is built and the overview is next
EnterDigest(data) ==
    /\ users_left' = users_left - 1
    /\ stocks_data' = data
    /\ IF NoStocks(data)
       THEN /\ result' = [kind |-> "empty", overview |-> <<>>,
                          blocks |-> <<>>]
            /\ UNCHANGED <<limiterAll, pc, batch_size, i, k, all_summaries,
                           market_data, market_summary_cache, closes,
                           pipeHist, runHist>>
       ELSE /\ i' = 0
            /\ k' = 0
            /\ all_summaries' = <<>>
            /\ market_data' = <<>>
            /\ result' = NoResult
            /\ failed_batches' = {}
            /\ failed_stocks' = {}
            /\ prompts' = <<>>
            /\ call_log' = <<>>
            /\ admitted_before' = n_admitted
            /\ ov_cause' = "none"
            /\ pc' = "market_summary"
            /\ UNCHANGED <<limiterAll, batch_size, market_summary_cache,
                           closes, n_model_calls, ov_fetches, ov_admissions,
                           ov_model_calls, ov_returns>>

\* a failed model call gives its admission back
AfterFailedCall_refund ==
    /\ lpc' = "idle"
    /\ daily_count' = daily_count - 1
    /\ UNCHANGED <<requests_per_minute, requests_per_day, request_times,
                   daily_reset_time, now, wait_seconds, oldest, histVars,
                   exception, stats>>

\* lines 184-186, 317-319 and 425-428: the except branches do not touch the
\* limiter, the admission of the failed call stays recorded
AfterFailedCall == LimiterResumed

\* main.py 98-99, process_user 32-42: the next user's records are fetched
\* and generate_digest is called with them
ProcessUser ==
    /\ pc = "main"
    /\ users_left > 0
    /\ \E data \in StockLists : EnterDigest(data)

\* generate_digest called with an empty list (summarize.py 459-462 passes
\* whatever fetch_all_data returned)
DigestEmpty ==
    /\ pc = "main"
    /\ users_left > 0
    /\ EnterDigest(<<>>)

\* generate_market_summary 262-264: the cached value is returned
MarketSummaryCached ==
    /\ pc = "market_summary"
    /\ CacheHit(market_summary_cache)
    /\ market_data' = market_summary_cache
    /\ ov_returns' = Append(ov_returns, market_summary_cache)
    /\ pc' = "batch"
    /\ UNCHANGED <<limiterAll, users_left, stocks_data, batch_size, i, k,
                   all_summaries, market_summary_cache, closes, result,
                   n_model_calls, ov_fetches, ov_admissions, ov_model_calls,
                   failed_batches, failed_stocks>>
    /\ UNCHANGED runHist

\* generate_market_summary 267-277: the three histories are fetched; each
\* holds 0, 1 or 2 closes
MarketSummaryFetch ==
    /\ pc = "market_summary"
    /\ ~CacheHit(market_summary_cache)
    /\ \E c \in [1..3 -> 0..2] : closes' = c
    /\ UNCHANGED clock
    /\ ov_fetches' = ov_fetches + 1
    /\ pc' = "market_fetched"
    /\ UNCHANGED <<limiterVars, frameVars, histVars, exception, stats,
                   users_left, stocks_data, batch_size, i, k, all_summaries,
                   market_data, market_summary_cache, result, n_model_calls,
                   ov_admissions, ov_model_calls, ov_returns, failed_batches,
                   failed_stocks>>
    /\ UNCHANGED runHist

\* a history of one close passes for a history of two
AnyShort_none(c) == FALSE

\* line 279: some history is empty
AnyEmpty(c) == \E x \in 1..3 : c[x] = 0

\* lines 283-285: iloc[-2] raises IndexError on a history of one close
AnyShort(c) == \E x \in 1..3 : c[x] = 1

\* generate_market_summary 279-285, 317-319: no overview without two
\* closes of every index; None is returned, nothing is cached
MarketSummaryUnavailable ==
    /\ pc = "market_fetched"
    /\ AnyEmpty(closes) \/ AnyShort(closes)
    /\ ov_cause' = IF AnyEmpty(closes) THEN "empty" ELSE "short"
    /\ UNCHANGED <<prompts, call_log, admitted_before>>
    /\ closes' = <<>>
    /\ market_data' = <<>>
    /\ ov_returns' = Append(ov_returns, <<>>)
    /\ pc' = "batch"
    /\ UNCHANGED <<limiterAll, users_left, stocks_data, batch_size, i, k,
                   all_summaries, market_summary_cache, result,
                   n_model_calls, ov_fetches, ov_admissions, ov_model_calls,
                   failed_batches, failed_stocks>>

\* generate_market_summary 283-302: the prompt is built and the quota
\* tracker is called
MarketSummaryWait ==
    /\ pc = "market_fetched"
    /\ ~(AnyEmpty(closes) \/ AnyShort(closes))
    /\ WaitIfNeeded
    /\ UNCHANGED n_calls
    /\ closes' = <<>>
    /\ pc' = "market_wait"
    /\ UNCHANGED <<users_left, stocks_data, batch_size, i, k, all_summaries,
                   market_data, market_summary_cache, result, pipeHist>>
    /\ UNCHANGED runHist

\* generate_market_summary 303-315: the model answers; the result is cached
\* and returned
MarketSummaryModel ==
    /\ pc = "market_wait"
    /\ ModelGate(lpc)
    /\ LimiterResumed
    /\ UNCHANGED clock
    /\ \E text \in Texts :
         /\ market_summary_cache' = CacheStore([summary |-> text])
         /\ market_data' = <<[summary |-> text]>>
         /\ ov_returns' = Append(ov_returns, <<[summary |-> text]>>)
    /\ n_model_calls' = n_model_calls + 1
    /\ ov_model_calls' = ov_model_calls + 1
    /\ ov_admissions' = ov_admissions + 1
    /\ pc' = "batch"
    /\ UNCHANGED <<users_left, stocks_data, batch_size, i, k, all_summaries,
                   closes, result, ov_fetches, failed_batches, failed_stocks>>
    /\ call_log' = Append(call_log, Call("overview", 0, "ok"))
    /\ UNCHANGED <<prompts, admitted_before, ov_cause>>

\* generate_market_summary 303, 317-319: the model call raises; None is
\* returned, nothing is cached
MarketSummaryModelFails ==
    /\ pc = "market_wait"
    /\ ModelGate(lpc)
    /\ AfterFailedCall
    /\ UNCHANGED clock
    /\ market_data' = <<>>
    /\ ov_returns' = Append(ov_returns, <<>>)
    /\ n_model_calls' = n_model_calls + 1
    /\ ov_model_calls' = ov_model_calls + 1
    /\ ov_admissions' = ov_admissions + 1
    /\ pc' = "batch"
    /\ UNCHANGED <<users_left, stocks_data, batch_size, i, k, all_summaries,
                   market_summary_cache, closes, result, ov_fetches,
                   failed_batches, failed_stocks>>
    /\ call_log' = Append(call_log, Call("overview", 0, "model_error"))
    /\ UNCHANGED <<prompts, admitted_before, ov_cause>>

\* generate_market_summary 302, 317-319: wait_if_needed raised; None is
\* returned without a model call
MarketSummaryWaitRaised ==
    /\ pc = "market_wait"
    /\ lpc = "raised"
    /\ LimiterResumed
    /\ market_data' = <<>>
    /\ ov_returns' = Append(ov_returns, <<>>)
    /\ pc' = "batch"
    /\ UNCHANGED <<clock, users_left, stocks_data, batch_size, i, k,
                   all_summaries, market_summary_cache, closes, result,
                   n_model_calls, ov_fetches, ov_admissions, ov_model_calls,
                   failed_batches, failed_stocks>>
    /\ call_log' = Append(call_log, Call("overview", 0, "wait_error"))
    /\ UNCHANGED <<prompts, admitted_before, ov_cause>>

\* generate_digest 385-421: the next batch's prompt is built from
\* build_stock_prompt of each member and the quota tracker is called
BatchWait ==
    /\ pc = "batch"
    /\ i < Len(stocks_data)
    /\ \A p \in 1..Len(Batch(stocks_data, i, batch_size)) :
         ~BuildPromptRaises(Batch(stocks_data, i, batch_size)[p])
    /\ prompts' = [p \in 1..Len(Batch(stocks_data, i, batch_size)) |->
                      StockPrompt(Batch(stocks_data, i, batch_size)[p])]
    /\ WaitIfNeeded
    /\ UNCHANGED n_calls
    /\ pc' = "batch_wait"
    /\ UNCHANGED <<pipeVars, pipeHist, call_log, admitted_before, ov_cause>>

\* generate_digest 413-414: build_stock_prompt raises outside any try; the
\* exception leaves generate_digest, process_user and main (main.py 131-135)
BatchPromptRaises ==
    /\ pc = "batch"
    /\ i < Len(stocks_data)
    /\ \E p \in 1..Len(Batch(stocks_data, i, batch_size)) :
         BuildPromptRaises(Batch(stocks_data, i, batch_size)[p])
    /\ LET batch == Batch(stocks_data, i, batch_size)
           first == CHOOSE p \in 1..Len(batch) :
                      /\ BuildPromptRaises(batch[p])
                      /\ \A q \in 1..(p - 1) : ~BuildPromptRaises(batch[q])
       IN prompts' = [p \in 1..first |-> StockPrompt(batch[p])]
    /\ UNCHANGED <<call_log, admitted_before, ov_cause>>
    /\ result' = [kind |-> "raised", overview |-> <<>>, blocks |-> <<>>]
    /\ exception' = "AttributeError"
    /\ pc' = "exit"
    /\ UNCHANGED <<limiterVars, clock, frameVars, histVars, stats,
                   users_left, stocks_data, batch_size, i, k, all_summaries,
                   market_data, market_summary_cache, closes, pipeHist>>

\* generate_digest 423-424: the batch call succeeds, its text is one block
BatchModel ==
    /\ pc = "batch_wait"
    /\ ModelGate(lpc)
    /\ LimiterResumed
    /\ UNCHANGED clock
    /\ all_summaries' =
         Append(all_summaries, BatchBlock(Batch(stocks_data, i, batch_size)))
    /\ n_model_calls' = n_model_calls + 1
    /\ i' = NextBatchStart(i, batch_size)
    /\ pc' = "batch"
    /\ UNCHANGED <<users_left, stocks_data, batch_size, k, market_data,
                   market_summary_cache, closes, result, ov_fetches,
                   ov_admissions, ov_model_calls, ov_returns, failed_batches,
                   failed_stocks>>
    /\ call_log' = Append(call_log, Call("batch", i, "ok"))
    /\ UNCHANGED <<prompts, admitted_before, ov_cause>>

\* generate_digest 423, 425-428: the batch call raises; fall back to one
\* call per stock of this batch
BatchModelFails ==
    /\ pc = "batch_wait"
    /\ ModelGate(lpc)
    /\ AfterFailedCall
    /\ UNCHANGED clock
    /\ n_model_calls' = n_model_calls + 1
    /\ failed_batches' = failed_batches \cup {i}
    /\ k' = 0
    /\ pc' = "stock"
    /\ UNCHANGED <<users_left, stocks_data, batch_size, i, all_summaries,
                   market_data, market_summary_cache, closes, result,
                   ov_fetches, ov_admissions, ov_model_calls, ov_returns,
                   failed_stocks>>
    /\ call_log' = Append(call_log, Call("batch", i, "model_error"))
    /\ UNCHANGED <<prompts, admitted_before, ov_cause>>

\* generate_digest 421, 425-428: wait_if_needed raised inside the try
BatchWaitRaised ==
    /\ pc = "batch_wait"
    /\ lpc = "raised"
    /\ LimiterResumed
    /\ failed_batches' = failed_batches \cup {i}
    /\ k' = 0
    /\ pc' = "stock"
    /\ UNCHANGED <<clock, users_left, stocks_data, batch_size, i,
                   all_summaries, market_data, market_summary_cache, closes,
                   result, n_model_calls, ov_fetches, ov_admissions,
                   ov_model_calls, ov_returns, failed_stocks>>
    /\ call_log' = Append(call_log, Call("batch", i, "wait_error"))
    /\ UNCHANGED <<prompts, admitted_before, ov_cause>>

\* the batch the fallback loop of the current chunk runs over
Fallback == FallbackBatch(stocks_data, i, batch_size)

\* generate_digest 428-429, summarize_stock_news 98-175: the next stock of
\* the failed batch; its prompt is built and the quota tracker is called
StockWait ==
    /\ pc = "stock"
    /\ k < Len(Fallback)
    /\ ~BuildPromptRaises(Fallback[k + 1])
    /\ prompts' = <<SummaryPrompt(Fallback[k + 1])>>
    /\ WaitIfNeeded
    /\ UNCHANGED n_calls
    /\ pc' = "stock_wait"
    /\ UNCHANGED <<pipeVars, pipeHist, call_log, admitted_before, ov_cause>>

\* summarize_stock_news 177-182, generate_digest 430
StockModel ==
    /\ pc = "stock_wait"
    /\ ModelGate(lpc)
    /\ LimiterResumed
    /\ UNCHANGED clock
    /\ all_summaries' =
         Append(all_summaries,
                SummaryBlock(Fallback[k + 1]))
    /\ n_model_calls' = n_model_calls + 1
    /\ k' = k + 1
    /\ pc' = "stock"
    /\ UNCHANGED <<users_left, stocks_data, batch_size, i, market_data,
                   market_summary_cache, closes, result, ov_fetches,
                   ov_admissions, ov_model_calls, ov_returns, failed_batches,
                   failed_stocks>>
    /\ call_log' = Append(call_log, Call("stock", i + k + 1, "ok"))
    /\ UNCHANGED <<prompts, admitted_before, ov_cause>>

\* summarize_stock_news 177, 184-186, generate_digest 430: the stock's own
\* call raises; the placeholder is the stock's block
StockModelFails ==
    /\ pc = "stock_wait"
    /\ ModelGate(lpc)
    /\ AfterFailedCall
    /\ UNCHANGED clock
    /\ all_summaries' =
         Append(all_summaries,
                ErrorBlock(Fallback[k + 1]))
    /\ n_model_calls' = n_model_calls + 1
    /\ failed_stocks' =
         failed_stocks \cup {Fallback[k + 1].symbol}
    /\ k' = AfterStockFailure(k, Len(Fallback))
    /\ pc' = "stock"
    /\ UNCHANGED <<users_left, stocks_data, batch_size, i, market_data,
                   market_summary_cache, closes, result, ov_fetches,
                   ov_admissions, ov_model_calls, ov_returns, failed_batches>>
    /\ call_log' = Append(call_log, Call("stock", i + k + 1, "model_error"))
    /\ UNCHANGED <<prompts, admitted_before, ov_cause>>

\* summarize_stock_news 175, 184-186: wait_if_needed raised inside the try
StockWaitRaised ==
    /\ pc = "stock_wait"
    /\ lpc = "raised"
    /\ LimiterResumed
    /\ all_summaries' =
         Append(all_summaries,
                ErrorBlock(Fallback[k + 1]))
    /\ failed_stocks' =
         failed_stocks \cup {Fallback[k + 1].symbol}
    /\ k' = AfterStockFailure(k, Len(Fallback))
    /\ pc' = "stock"
    /\ UNCHANGED <<clock, users_left, stocks_data, batch_size, i, market_data,
                   market_summary_cache, closes, result, n_model_calls,
                   ov_fetches, ov_admissions, ov_model_calls, ov_returns,
                   failed_batches>>
    /\ call_log' = Append(call_log, Call("stock", i + k + 1, "wait_error"))
    /\ UNCHANGED <<prompts, admitted_before, ov_cause>>

\* generate_digest 428, 385: the fallback loop is over, on to the next batch
FallbackDone ==
    /\ pc = "stock"
    /\ k >= Len(Fallback)
    /\ i' = NextBatchStart(i, batch_size)
    /\ k' = 0
    /\ pc' = "batch"
    /\ UNCHANGED <<limiterAll, users_left, stocks_data, batch_size,
                   all_summaries, market_data, market_summary_cache, closes,
                   result, pipeHist>>
    /\ UNCHANGED runHist

\* generate_digest 433-438: the digest is the header (with the overview
\* when there is one) followed by the blocks in the order they were appended
DigestReturn ==
    /\ pc = "batch"
    /\ i >= Len(stocks_data)
    /\ result' = [kind |-> "digest",
                  overview |-> OverviewSection(market_data),
                  blocks |-> all_summaries]
    /\ pc' = "main"
    /\ UNCHANGED <<limiterAll, users_left, stocks_data, batch_size, i, k,
                   all_summaries, market_data, market_summary_cache, closes,
                   pipeHist>>
    /\ UNCHANGED runHist

\* main.py 113-118: the usage report after the last user
MainStats ==
    /\ pc = "main"
    /\ users_left = 0
    /\ GetStats
    /\ pc' = "exit"
    /\ UNCHANGED <<pipeVars, pipeHist>>
    /\ UNCHANGED runHist

\* the limits rate_limiter.py 14-15 configure: the shipped ones, or both
\* set to a small n
LimitConfigs ==
    {<<REQUESTS_PER_MINUTE, REQUESTS_PER_DAY>>}
    \cup {<<n, n>> : n \in 1..MaxRpd}

\* summarize.py 14: RateLimiter() with the configured limits, and main()
Init ==
    /\ \E lim \in LimitConfigs : LimiterInit(lim[1], lim[2])
    /\ \E size \in 1..MaxBatch : PipelineInit(size)
    /\ pc = "main"

Next ==
    \/ ProcessUser
    \/ DigestEmpty
    \/ MarketSummaryCached
    \/ MarketSummaryFetch
    \/ MarketSummaryUnavailable
    \/ MarketSummaryWait
    \/ MarketSummaryModel
    \/ MarketSummaryModelFails
    \/ MarketSummaryWaitRaised
    \/ BatchWait
    \/ BatchPromptRaises
    \/ BatchModel
    \/ BatchModelFails
    \/ BatchWaitRaised
    \/ StockWait
    \/ StockModel
    \/ StockModelFails
    \/ StockWaitRaised
    \/ FallbackDone
    \/ DigestReturn
    \/ DailySleep
    \/ MinuteSleep
    \/ MainStats

Spec == Init /\ [][Next]_vars

\* ------------------------------------------------- the limiter on its own
\* A caller that makes any sequence of wait_if_needed(), get_stats() and
\* reset() calls at any times, on a limiter with any positive limits (a
\* small daily limit, or the shipped one, which is never reached).

DriverInit ==
    /\ \E rpm \in 1..MaxRpm, rpd \in (1..MaxRpd) \cup {REQUESTS_PER_DAY} :
         LimiterInit(rpm, rpd)
    /\ PipelineInit(1)
    /\ pc = "driver"

DriverWait ==
    /\ pc = "driver"
    /\ n_calls < MaxCalls
    /\ WaitIfNeeded
    /\ n_calls' = n_calls + 1
    /\ UNCHANGED <<pc, pipeVars, pipeHist>>
    /\ UNCHANGED runHist

\* the call returned, or raised, to the driver
DriverResume ==
    /\ pc = "driver"
    /\ lpc \in {"returned", "raised"}
    /\ lpc' = "idle"
    /\ UNCHANGED <<limiterVars, clock, now, wait_seconds, oldest, histVars,
                   exception, stats, pc, pipeVars, pipeHist>>
    /\ UNCHANGED runHist

DriverGetStats ==
    /\ pc = "driver"
    /\ GetStats
    /\ UNCHANGED <<pc, pipeVars, pipeHist>>
    /\ UNCHANGED runHist

DriverReset ==
    /\ pc = "driver"
    /\ Reset
    /\ UNCHANGED <<pc, pipeVars, pipeHist>>
    /\ UNCHANGED runHist

\* time passes between two calls
Elapse ==
    /\ pc = "driver"
    /\ lpc = "idle"
    /\ clock < MaxTime
    /\ clock' = clock + 1
    /\ UNCHANGED <<limiterVars, frameVars, histVars, exception, stats, pc,
                   pipeVars, pipeHist>>
    /\ UNCHANGED runHist

WaitNext ==
    \/ DriverWait
    \/ DailySleep
    \/ MinuteSleep
    \/ DriverResume
    \/ Elapse

\* wait_if_needed() calls only, at any times
LimiterSpec == DriverInit /\ [][WaitNext]_vars

OpsNext ==
    \/ DriverWait
    \/ DailySleep
    \/ MinuteSleep
    \/ DriverResume
    \/ Elapse
    \/ DriverGetStats
    \/ DriverReset

\* wait_if_needed(), get_stats() and reset() calls in any order
LimiterOpsSpec == DriverInit /\ [][OpsNext]_vars

\* ------------------------------------------------------------------ claims

\* C1: for a configured limit R >= 2 and wait_if_needed() calls arriving at
\* any times, no 60-second interval holds more than R returns.  `returns`
\* holds the return times of the half-open minute ending at the last return.
C1_PerMinuteCeiling ==
    requests_per_minute >= 2 => Len(returns) <= requests_per_minute

\* C2: a call that finds at least R-1 timestamps in the window does not
\* return before the oldest of them is a minute old; every call ends by
\* returning (never by raising), having appended exactly one timestamp and
\* incremented the daily counter by exactly one.
C2_QuotaWindow ==
    /\ lpc # "raised"
    /\ lpc = "returned" =>
          /\ oldest # <<>> => clock >= oldest[1] + Minute
          /\ Len(request_times) = entry_len + 1
          /\ daily_count = (IF slept_daily THEN 0 ELSE entry_count) + 1

\* C3: a call that slept for the daily limit sleeps no further (it does not
\* go on to the per-minute sleep) and returns with daily_count = 1.
C3_DailyReset ==
    slept_daily =>
        /\ lpc # "minute_sleep"
        /\ ~slept_minute
        /\ lpc = "returned" => daily_count = 1

\* C4: daily_count never exceeds the configured daily limit, whatever
\* wait_if_needed(), get_stats() and reset() calls are made.
C4_PerDayCeiling == daily_count <= requests_per_day

\* a call that slept until the daily reset has returned with the counter
\* back at the limit
C4_Witness ==
    /\ lpc = "returned"
    /\ slept_daily
    /\ n_admitted > requests_per_day
    /\ daily_count = requests_per_day

\* C5 as stated: two sequential generate_market_summary() calls make
\* exactly one model call and one admission in total and return the same
\* value.
C5_TwoCallsOneInvocation ==
    Len(ov_returns) >= 2 =>
        /\ ov_model_calls = 1
        /\ ov_admissions = 1
        /\ ov_returns[1] = ov_returns[2]

\* C5 as amended: when the first generate_market_summary() call succeeds,
\* all the calls together make exactly one fetch, one model call and one
\* admission and every call returns the first call's value; and once a
\* result is cached it never changes, and every later call returns it
\* without a fetch, a model call or an admission.
C5_Caching ==
    /\ [](Len(ov_returns) >= 2 /\ ov_returns[1] # <<>> =>
            /\ ov_fetches = 1
            /\ ov_model_calls = 1
            /\ ov_admissions = 1
            /\ \A r \in 1..Len(ov_returns) : ov_returns[r] = ov_returns[1])
    /\ [][market_summary_cache # <<>> =>
            /\ market_summary_cache' = market_summary_cache
            /\ ov_fetches' = ov_fetches
            /\ ov_model_calls' = ov_model_calls
            /\ ov_admissions' = ov_admissions
            /\ ov_returns' # ov_returns =>
                  ov_returns' = Append(ov_returns, market_summary_cache)]_vars

\* the second user's digest took the overview the first user's run cached
C5_Witness ==
    /\ Len(ov_returns) >= 2
    /\ ov_returns[1] # <<>>
    /\ market_data = market_summary_cache
    /\ pc = "batch"

\* C6: the model is never called more often than wait_if_needed() has
\* returned: every model call follows a completed admission of its own.
C6_ModelCallsGated == n_model_calls <= n_admitted

\* an overview call, a failed batch call and a failed per-stock call have
\* all been made, the last of them after the limiter slept
C6_Witness ==
    /\ ov_model_calls >= 1
    /\ failed_batches # {}
    /\ failed_stocks # {}
    /\ slept_minute
    /\ n_model_calls >= 3
    /\ n_model_calls = n_admitted

\* the symbols the blocks stand for, in the order of the blocks
RECURSIVE Covered(_)
Covered(blocks) ==
    IF blocks = <<>> THEN <<>>
    ELSE Head(blocks).symbols \o Covered(Tail(blocks))

\* C7: the blocks of a returned digest cover every input record exactly
\* once, in the order of the input list, whatever calls failed.
C7_BatchOrdering ==
    result.kind = "digest" => Covered(result.blocks) = Symbols(stocks_data)

\* a digest of at least three records in batches of two, one batch
\* answered as a whole and one through the per-stock fallback
C7_Witness ==
    /\ result.kind = "digest"
    /\ Len(stocks_data) >= 3
    /\ batch_size = 2
    /\ failed_batches # {}
    /\ \E b \in 1..Len(result.blocks) : result.blocks[b].kind = "batch"

\* the positions in stocks_data of the chunk that starts at `start`
ChunkOf(start) ==
    {p \in 1..Len(stocks_data) : start < p /\ p <= start + batch_size}

\* the blocks of the digest that bear the header of the record at p
OwnBlocks(p) ==
    {b \in 1..Len(result.blocks) :
        /\ result.blocks[b].kind = "stock"
        /\ result.blocks[b].symbols = <<stocks_data[p].symbol>>}

\* C8: in a returned digest every record of a chunk whose batch call failed
\* has exactly one block under its own header: the fixed placeholder when
\* its own call failed too, the generated text otherwise.
C8_FallbackIsolation ==
    result.kind = "digest" =>
        \A start \in failed_batches : \A p \in ChunkOf(start) :
            /\ Cardinality(OwnBlocks(p)) = 1
            /\ \A b \in OwnBlocks(p) :
                 result.blocks[b].body =
                     IF stocks_data[p].symbol \in failed_stocks
                     THEN "Error generating summary."
                     ELSE "summary"

\* a chunk of three fell back, the call of its second record failed, and
\* the first and the third record still got their generated text
C8_Witness ==
    /\ result.kind = "digest"
    /\ \E start \in failed_batches : \E p, q, r \in ChunkOf(start) :
         /\ p < q /\ q < r
         /\ stocks_data[p].symbol \notin failed_stocks
         /\ stocks_data[q].symbol \in failed_stocks
         /\ stocks_data[r].symbol \notin failed_stocks
         /\ \E b \in OwnBlocks(q) :
              result.blocks[b].body = "Error generating summary."
         /\ \E b \in OwnBlocks(r) : result.blocks[b].body = "summary"

\* C9: generate_digest never ends by raising, whatever the records'
\* earnings hold and whatever model calls fail.
C9_DigestNeverRaises == result.kind # "raised"

\* C10: no quota tracker operation raises, for any positive limits.
C10_NeverRaises == exception = "none"

\* the blocks of the chunk that starts at `start`, given which batch calls
\* and which per-stock calls failed
ChunkBlocks(start) ==
    LET batch == Batch(stocks_data, start, batch_size) IN
    IF start \in failed_batches
    THEN [p \in 1..Len(batch) |->
            IF batch[p].symbol \in failed_stocks
            THEN ErrorBlock(batch[p]) ELSE SummaryBlock(batch[p])]
    ELSE <<BatchBlock(batch)>>

\* the blocks of the chunks from `start` on
RECURSIVE BlocksFrom(_)
BlocksFrom(start) ==
    IF start >= Len(stocks_data) THEN <<>>
    ELSE ChunkBlocks(start) \o BlocksFrom(start + batch_size)

NamedVariants(stock) ==
    IF ~stock.news /\ stock.earnings = <<>>
    THEN {"no_data"} ELSE {"news", "earnings"}

\* C12: for every record, build_stock_prompt (in a batch prompt) and
\* summarize_stock_news (in the fallback) produce the no-data prompt when
\* the record has empty news and absent earnings, and the earnings/news-
\* aware prompt when it has news or earnings.
C12_NoDataBranch ==
    LET batch == Batch(stocks_data, i, batch_size) IN
    /\ pc = "batch_wait" \/ result.kind = "raised" =>
          \A p \in 1..Len(prompts) : prompts[p] \in NamedVariants(batch[p])
    /\ pc = "stock_wait" => prompts[1] \in NamedVariants(batch[k + 1])

\* the calls of the log that are not the overview's
RECURSIVE StockCalls(_)
StockCalls(log) ==
    IF log = <<>> THEN <<>>
    ELSE IF Head(log).kind = "overview" THEN StockCalls(Tail(log))
         ELSE <<Head(log)>> \o StockCalls(Tail(log))

\* the log, read from the chunk at `start` on, is chunk after chunk one
\* batch call and, exactly when that call did not succeed, one call for each
\* record of the chunk in input order, each of them with a model call of its
\* own when the batch call got as far as its model call
RECURSIVE FallbackScoped(_, _)
FallbackScoped(log, start) ==
    IF start >= Len(stocks_data) THEN log = <<>>
    ELSE /\ log # <<>>
         /\ Head(log).kind = "batch"
         /\ Head(log).at = start
         /\ IF Head(log).outcome = "ok"
            THEN FallbackScoped(Tail(log), start + batch_size)
            ELSE LET n == Cardinality(ChunkOf(start)) IN
                 /\ Len(log) >= n + 1
                 /\ \A j \in 1..n :
                      /\ log[j + 1].kind = "stock"
                      /\ log[j + 1].at = start + j
                      /\ Head(log).outcome = "model_error" =>
                            log[j + 1].outcome # "wait_error"
                 /\ FallbackScoped(SubSeq(log, n + 2, Len(log)),
                                   start + batch_size)

\* C13: in a returned digest a chunk whose batch model call failed is
\* followed by exactly one individual admission and model call for each of
\* its records, in input order, before the next chunk; a chunk whose batch
\* call succeeded has no individual call; every chunk, also one after a
\* failed chunk, is begun with a batch call.
C13_FallbackScope ==
    result.kind = "digest" => FallbackScoped(StockCalls(call_log), 0)

\* three records in batches of two: the first batch call failed at the
\* model and its two records were called one by one, then the last record
\* was answered by a batch call
C13_Witness ==
    /\ result.kind = "digest"
    /\ batch_size = 2
    /\ Len(stocks_data) = 3
    /\ Len(StockCalls(call_log)) = 4
    /\ [x \in 1..4 |-> StockCalls(call_log)[x].kind] =
         <<"batch", "stock", "stock", "batch">>
    /\ StockCalls(call_log)[1].outcome = "model_error"
    /\ StockCalls(call_log)[4].outcome = "ok"

\* the starts of the chunks for which a batch call was made, in call order
RECURSIVE BatchStarts(_)
BatchStarts(log) ==
    IF log = <<>> THEN <<>>
    ELSE IF Head(log).kind = "batch"
         THEN <<Head(log).at>> \o BatchStarts(Tail(log))
         ELSE BatchStarts(Tail(log))

\* C14: the x-th batch call is made for the chunk that starts at record
\* (x-1)*batch_size and covers exactly the records of [start, start +
\* batch_size) that exist; in a returned digest every chunk but the last
\* has batch_size records, every record lies in exactly one chunk, and
\* every chunk got exactly one batch call.
C14_BatchPartition ==
    LET starts == BatchStarts(call_log)
        N == Len(stocks_data)
    IN /\ \A x \in 1..Len(starts) :
            /\ starts[x] = (x - 1) * batch_size
            /\ Batch(stocks_data, starts[x], batch_size) =
                 [q \in 1..Cardinality(ChunkOf(starts[x])) |->
                    stocks_data[starts[x] + q]]
       /\ pc \in {"batch_wait", "stock", "stock_wait"} =>
            i = Len(starts) * batch_size \/ i = (Len(starts) - 1) * batch_size
       /\ result.kind = "digest" =>
            /\ Len(starts) * batch_size >= N
            /\ (Len(starts) - 1) * batch_size < N
            /\ \A x \in 1..(Len(starts) - 1) :
                 Cardinality(ChunkOf(starts[x])) = batch_size
            /\ \A p \in 1..N :
                 Cardinality({x \in 1..Len(starts) :
                                p \in ChunkOf(starts[x])}) = 1

\* three records in batches of two: a chunk of two and a last chunk of one
C14_Witness ==
    /\ result.kind = "digest"
    /\ batch_size = 2
    /\ Len(stocks_data) = 3
    /\ BatchStarts(call_log) = <<0, 2>>
    /\ Cardinality(ChunkOf(2)) = 1

\* C15: when a wait_if_needed() call returns (also one that slept for the
\* daily limit) no stored timestamp is more than a minute older than the
\* time of return, and the timestamp appended for the call is the time at
\* which the call went ahead.
C15_WindowFreshness ==
    lpc = "returned" =>
        /\ \A x \in 1..Len(request_times) : request_times[x] >= clock - Minute
        /\ request_times[Len(request_times)] = clock

\* C16: in any sequence of wait_if_needed() calls every step either leaves
\* the daily deadline alone and adds to daily_count exactly the admission it
\* makes, if any, or is a reset inside wait_if_needed made when the time is
\* at or past the deadline: it moves the deadline to one day after that time
\* and restarts the count at 0 (plus the admission the same step makes).
C16_DailyCounter ==
    [][\/ /\ daily_reset_time' = daily_reset_time
          /\ daily_count' = daily_count + (n_admitted' - n_admitted)
          /\ n_admitted' - n_admitted \in {0, 1}
       \/ /\ lpc \in {"idle", "daily_sleep"}
          /\ clock' >= daily_reset_time
          /\ daily_reset_time' = clock' + Day
          /\ daily_count' = n_admitted' - n_admitted
          /\ n_admitted' - n_admitted \in {0, 1}]_vars

\* a call made at the deadline reset the counter (lines 38-40) and was
\* admitted as the first of the new day, after earlier admissions
C16_Witness ==
    /\ lpc = "returned"
    /\ requests_per_day = REQUESTS_PER_DAY
    /\ clock >= Day
    /\ daily_reset_time = clock + Day
    /\ n_admitted >= 3
    /\ daily_count = 1

\* C17: when one of the three indices has fewer than two closes (none, or
\* exactly one), generate_market_summary returns None: it makes no model
\* call, does not call the quota tracker, and stores nothing in the cache.
C17_InsufficientData ==
    [][pc = "market_fetched" /\ (\E x \in 1..3 : closes[x] < 2) =>
          /\ market_data' = <<>>
          /\ ov_returns' = Append(ov_returns, <<>>)
          /\ n_model_calls' = n_model_calls
          /\ ov_model_calls' = ov_model_calls
          /\ lpc' = lpc
          /\ UNCHANGED <<request_times, daily_count, n_admitted,
                         market_summary_cache>>]_vars

\* the overview was given up because an index had exactly one close, and
\* the digest goes on to its first batch with limiter and cache untouched
C17_Witness ==
    /\ pc = "batch"
    /\ ov_cause = "short"
    /\ ov_returns = <<<<>>>>
    /\ market_data = <<>>
    /\ market_summary_cache = <<>>
    /\ n_model_calls = 0
    /\ request_times = <<>>
    /\ daily_count = 0

\* C18: a generate_market_summary call that returns None leaves the cache
\* empty; while the cache is empty every call has made a fetch of its own,
\* and every overview model call an admission of its own; once the cache is
\* set it is never changed or cleared.
C18_FailureNotCached ==
    /\ [](market_summary_cache = <<>> =>
            /\ \A r \in 1..Len(ov_returns) : ov_returns[r] = <<>>
            /\ ov_fetches >= Len(ov_returns)
            /\ ov_fetches <= Len(ov_returns) + 1
            /\ ov_model_calls = ov_admissions)
    /\ [][/\ ov_returns' # ov_returns
              /\ ov_returns'[Len(ov_returns')] = <<>>
              => market_summary_cache' = <<>>]_vars
    /\ [][market_summary_cache # <<>> =>
              market_summary_cache' = market_summary_cache]_vars

\* the first user's overview failed at the model and nothing was cached;
\* the second user's run fetched again, was admitted and called the model
\* again, and its result was cached
C18_Witness ==
    /\ Len(ov_returns) = 2
    /\ ov_returns[1] = <<>>
    /\ ov_returns[2] # <<>>
    /\ ov_fetches = 2
    /\ ov_model_calls = 2
    /\ ov_admissions = 2
    /\ market_summary_cache = ov_returns[2]

\* ceil(n / b)
Ceil(n, b) == (n + b - 1) \div b

\* the number of overview calls in the log
Overviews(log) ==
    Cardinality({x \in 1..Len(log) : log[x].kind = "overview"})

\* the number of calls in the log whose wait_if_needed raised
WaitsRaised(log) ==
    Cardinality({x \in 1..Len(log) : log[x].outcome = "wait_error"})

\* the number of records in the chunks that start in `starts`
RECURSIVE ChunkTotal(_)
ChunkTotal(starts) ==
    IF starts = {} THEN 0
    ELSE LET s == CHOOSE x \in starts : TRUE
         IN Cardinality(ChunkOf(s)) + ChunkTotal(starts \ {s})

C20_EmptyInput ==
    /\ [](stocks_data = <<>> /\ users_left < MaxUsers /\ pc = "main" =>
            result.kind = "empty")
    /\ [][users_left' # users_left /\ stocks_data' = <<>> =>
              /\ result'.kind = "empty"
              /\ pc' = pc
              /\ UNCHANGED <<request_times, daily_count, daily_reset_time,
                             n_admitted, market_summary_cache, n_model_calls,
                             ov_fetches, ov_model_calls, ov_returns>>]_vars

\* the second user has no records: "" is returned, and the overview the
\* first user's run cached and the limiter's window are still there
C20_Witness ==
    /\ result.kind = "empty"
    /\ stocks_data = <<>>
    /\ users_left = MaxUsers - 2
    /\ market_summary_cache # <<>>
    /\ request_times # <<>>
    /\ daily_count >= 1
====
